---- MODULE Spec2Model ----
(***************************************************************************)
(* Expense tracker: the storage layer (server/storage.ts), the request     *)
(* handlers (server/routes.ts) and the insert schema (shared/schema.ts).   *)
(*                                                                         *)
(* Amounts are kept by the database as exact decimals with two places      *)
(* (decimal(10,2)); the model stores them as an integer number of cents.   *)
(* The aggregation code turns every amount into a JavaScript number with   *)
(* parseFloat and then adds, subtracts, divides and multiplies numbers,    *)
(* so the model carries IEEE-754 binary64 values and rounds every          *)
(* operation to nearest, ties to even, as the JavaScript engine does.      *)
(***************************************************************************)
EXTENDS Integers, Sequences, FiniteSets, TLC

(***************************************************************************)
(* Binary64 arithmetic.  A number is [s, hi, lo, e]: sign s (1 or -1), a   *)
(* 53-bit significand hi * 2^27 + lo in [2^52, 2^53) and the exponent e of *)
(* its last bit, so that the value is s * (hi * 2^27 + lo) * 2^e.  Zero is *)
(* [1, 0, 0, 0].  Two 27-bit limbs keep every intermediate below 2^31.     *)
(* Exponent overflow and subnormals are out of reach of currency amounts   *)
(* and are not represented.  NaN is the result of 0/0 only.                *)
(***************************************************************************)
W == 2^27

FZero == [s |-> 1, hi |-> 0, lo |-> 0, e |-> 0]

FNaN == [s |-> 0, hi |-> 0, lo |-> 0, e |-> 0]

FIsZero(x) == x.s # 0 /\ x.hi = 0 /\ x.lo = 0

\* Wide naturals <<hi, lo>> with lo < 2^27.
WShl1(w) == <<2 * w[1] + (2 * w[2]) \div W, (2 * w[2]) % W>>

WShl3(w) == WShl1(WShl1(WShl1(w)))

\* k bits to the right, 0 <= k <= 27, the bits shifted out or-ed into the
\* last bit.
WShrLimb(w, k) ==
    LET nl == (w[1] % 2^k) * 2^(27 - k) + w[2] \div 2^k
    IN  <<w[1] \div 2^k, IF w[2] % 2^k # 0 /\ nl % 2 = 0 THEN nl + 1 ELSE nl>>

\* d bits to the right, sticky, for w below 2^56
WShrSticky(w, d) ==
    IF d = 0 \/ w = <<0, 0>> THEN w
    ELSE IF d >= 56 THEN <<0, 1>>
    ELSE IF d <= 27 THEN WShrLimb(w, d)
    ELSE IF d <= 54 THEN WShrLimb(WShrLimb(w, 27), d - 27)
    ELSE WShrLimb(WShrLimb(WShrLimb(w, 27), 27), d - 54)

\* k bits to the left, 0 <= k <= 27
WShlLimb(w, k) ==
    <<w[1] * 2^k + w[2] \div 2^(27 - k), (w[2] % 2^(27 - k)) * 2^k>>

\* k bits to the left, 0 <= k <= 55
WShl(w, k) ==
    IF k <= 27 THEN WShlLimb(w, k)
    ELSE IF k <= 54 THEN WShlLimb(WShlLimb(w, 27), k - 27)
    ELSE WShlLimb(WShlLimb(WShlLimb(w, 27), 27), k - 54)

\* number of bits of n, 0 <= n < 2^31
BitLen(n) == IF n = 0 THEN 0 ELSE CHOOSE k \in 1..31 : 2^(k - 1) <= n /\ n \div 2 < 2^(k - 1)

WBitLen(w) == IF w[1] = 0 THEN BitLen(w[2]) ELSE 27 + BitLen(w[1])

WAdd(a, b) == <<a[1] + b[1] + (a[2] + b[2]) \div W, (a[2] + b[2]) % W>>

WSub(a, b) ==
    IF a[2] >= b[2] THEN <<a[1] - b[1], a[2] - b[2]>>
    ELSE <<a[1] - b[1] - 1, a[2] + W - b[2]>>

WLess(a, b) == a[1] < b[1] \/ (a[1] = b[1] /\ a[2] < b[2])

\* Shift w until it has exactly 56 bits (53 of significand, then guard,
\* round and sticky); <<w, e>> keeps the value w * 2^e.
Norm56(w, e) ==
    LET n == WBitLen(w)
    IN  IF n >= 56 THEN <<WShrLimb(w, n - 56), e + (n - 56)>>
        ELSE <<WShl(w, 56 - n), e - (56 - n)>>

\* Round a 56-bit w to 53 bits, to nearest, ties to even.
Round56(s, w, e) ==
    LET low3 == w[2] % 8
        m    == <<w[1] \div 8, (w[1] % 8) * (W \div 8) + w[2] \div 8>>
        up   == low3 > 4 \/ (low3 = 4 /\ m[2] % 2 = 1)
        r    == IF up THEN WAdd(m, <<0, 1>>) ELSE m
    IN  IF r[1] = 2^26
        THEN [s |-> s, hi |-> 2^25, lo |-> 0, e |-> e + 4]
        ELSE [s |-> s, hi |-> r[1], lo |-> r[2], e |-> e + 3]

\* The binary64 nearest to s * w * 2^e, w a wide natural below 2^58 whose
\* last bit may be a sticky bit.
Pack(s, w, e) ==
    IF w = <<0, 0>> THEN FZero
    ELSE LET n == Norm56(w, e) IN Round56(s, n[1], n[2])

FromInt(n) ==
    IF n >= 0 THEN Pack(1, <<n \div W, n % W>>, 0)
    ELSE Pack(-1, <<(-n) \div W, (-n) % W>>, 0)

FNeg(x) == IF FIsZero(x) \/ x = FNaN THEN x ELSE [x EXCEPT !.s = -x.s]

\* |x| < |y| for non-zero x, y
MagLess(x, y) == x.e < y.e \/ (x.e = y.e /\ WLess(<<x.hi, x.lo>>, <<y.hi, y.lo>>))

\* x + y
FAdd(x, y) ==
    IF x = FNaN \/ y = FNaN THEN FNaN
    ELSE IF FIsZero(x) THEN y
    ELSE IF FIsZero(y) THEN x
    ELSE LET big   == IF MagLess(x, y) THEN y ELSE x
             small == IF MagLess(x, y) THEN x ELSE y
             a     == WShl3(<<big.hi, big.lo>>)
             b     == WShrSticky(WShl3(<<small.hi, small.lo>>), big.e - small.e)
         IN  IF x.s = y.s THEN Pack(big.s, WAdd(a, b), big.e - 3)
             ELSE Pack(big.s, WSub(a, b), big.e - 3)

\* x - y
FSub(x, y) == FAdd(x, FNeg(y))

\* One step of restoring division on st = <<remainder, quotient, steps left>>:
\* the next quotient bit, and the remainder doubled for the step after it.
DivStep(st, d) ==
    LET ge == ~WLess(st[1], d)
        r1 == IF ge THEN WSub(st[1], d) ELSE st[1]
    IN  <<IF st[3] = 1 THEN r1 ELSE WShl1(r1),
          WAdd(WShl1(st[2]), IF ge THEN <<0, 1>> ELSE <<0, 0>>),
          st[3] - 1>>

\* All the steps, four at a time: <<remainder, floor(a * 2^(n-1) / d), 0>>
\* from <<a, 0, n>>, n a multiple of 4.
RECURSIVE DivLoop(_, _)
DivLoop(st, d) ==
    IF st[3] = 0 THEN st
    ELSE DivLoop(DivStep(DivStep(DivStep(DivStep(st, d), d), d), d), d)

\* x / y
FDiv(x, y) ==
    IF x = FNaN \/ y = FNaN \/ FIsZero(y) THEN FNaN
    ELSE IF FIsZero(x) THEN FZero
    ELSE LET r  == DivLoop(<<<<x.hi, x.lo>>, <<0, 0>>, 56>>, <<y.hi, y.lo>>)
             q  == r[2]
             qs == IF r[1] # <<0, 0>> /\ q[2] % 2 = 0 THEN <<q[1], q[2] + 1>> ELSE q
         IN  Pack(x.s * y.s, qs, x.e - y.e - 55)

\* x * 100: the significand times 25, exactly, then two binary places
FTimes100(x) ==
    IF x = FNaN \/ FIsZero(x) THEN x
    ELSE LET t1 == x.lo * 5
             t2 == (t1 % W) * 5
         IN  Pack(x.s, <<x.hi * 25 + (t1 \div W) * 5 + t2 \div W, t2 % W>>, x.e + 2)

\* x < y
FLess(x, y) ==
    LET d == FSub(x, y) IN d # FNaN /\ ~FIsZero(d) /\ d.s = -1

\* x > 0
FPositive(x) == x # FNaN /\ ~FIsZero(x) /\ x.s = 1

\* x <= y, decided on the representation (no arithmetic)
FLeq(x, y) ==
    IF FIsZero(x) THEN FIsZero(y) \/ y.s = 1
    ELSE IF FIsZero(y) THEN x.s = -1
    ELSE IF x.s # y.s THEN x.s = -1
    ELSE IF x.s = 1 THEN ~MagLess(y, x)
    ELSE ~MagLess(x, y)

(***************************************************************************)
(* Data model (shared/schema.ts).                                          *)
(***************************************************************************)
Null == "null"

NoSession == "no session"

\* Bound: the transactions serial stops at this id.
MaxTransactionId == 2

TransactionTypes == {"income", "expense"}

\* Amount texts of the requests.  decimal(10,2) takes a text that is a
\* number and keeps it as an exact number of cents; an insert of any other
\* text fails.
AmountTexts == {"", "abc", "0", "-0.10", "0.10", "0.20"}

IsNumeric(text) == text \in {"0", "-0.10", "0.10", "0.20"}

DecimalCents(text) ==
    CASE text = "0"     -> 0
      [] text = "-0.10" -> -10
      [] text = "0.10"  -> 10
      [] text = "0.20"  -> 20

\* parseFloat of the stored amounts: of c cents, the binary64 nearest to
\* c / 100
ParsedAmounts == [c \in {DecimalCents(a) : a \in {t \in AmountTexts : IsNumeric(t)}} |->
                    FDiv(FromInt(c), FromInt(100))]

parseFloat(c) == ParsedAmounts[c]

\* bcrypt.hash: a salted one-way hash, never the plain text itself
Hash(password) == "$2b$10$" \o password

\* bcrypt.compare rejects (throws) when the stored hash is missing
CompareThrows(hash) == hash = Null

Compare(password, hash) == hash = Hash(password)

\* Two accounts created by signup, the state of the users table in which
\* the ledger is exercised.
RegisteredUsers ==
    { [id |-> "user_1", email |-> "a@x.io", phone |-> Null, firstName |-> "Al",
       lastName |-> "Ay", password |-> Hash("secret1"), role |-> "user"],
      [id |-> "user_2", email |-> "b@x.io", phone |-> Null, firstName |-> "Al",
       lastName |-> "Ay", password |-> Hash("secret2"), role |-> "user"] }

VARIABLES
    users,              \* the users table: a set of rows
    nextUserId,         \* source of the generated user ids
    signups,            \* signup requests between their lookup and their insert
    transactions,       \* the transactions table: rows in insertion order
    nextTransactionId,  \* the serial of transactions.id
    clock,              \* now(), the day the database's clock shows
    deletes,            \* delete requests, waiting for the database or answered
    groups,             \* the groups table: rows in insertion order
    nextGroupId,        \* the serial of groups.id
    userGroups,         \* the user_groups table: rows in insertion order
    nextUserGroupId,    \* the serial of user_groups.id
    res                 \* the response sent last

vars == <<users, nextUserId, signups, transactions, nextTransactionId, clock, deletes,
          groups, nextGroupId, userGroups, nextUserGroupId, res>>

UserIds == {u.id : u \in users}

\* The callers of a request: a session of a user, or none
Callers == UserIds \cup {NoSession}

(***************************************************************************)
(* DatabaseStorage (server/storage.ts).  Operators read the tables; the    *)
(* ones that write return the new table with their result.                 *)
(***************************************************************************)
getUser(id) == {u \in users : u.id = id}

getUserByEmail(email) == {u \in users : u.email = email}

getUserByPhone(phone) == {u \in users : u.phone = phone}

\* A unique constraint of the users table (id, email, phone) rejects the row;
\* NULL never collides
UniqueViolation(row, others) ==
    \E u \in others :
        \/ u.id = row.id
        \/ row.email # Null /\ u.email = row.email
        \/ row.phone # Null /\ u.phone = row.phone

\* insert ... on conflict (id) do update set ...: the table after it; a
\* violated unique constraint leaves the table as it was
upsertUser(userData) ==
    LET old == getUser(userData.id)
        row == IF old = {}
               THEN [id |-> userData.id, email |-> userData.email, phone |-> Null,
                     firstName |-> userData.firstName, lastName |-> userData.lastName,
                     password |-> Null, role |-> "user"]
               ELSE [(CHOOSE u \in old : TRUE) EXCEPT !.email = userData.email,
                                                      !.firstName = userData.firstName,
                                                      !.lastName = userData.lastName]
    IN  IF UniqueViolation(row, users \ old) THEN users ELSE (users \ old) \cup {row}

\* insert into users ... returning, under a generated id
createUser(userData) ==
    LET row == [id |-> "user_" \o ToString(nextUserId), email |-> userData.email,
                phone |-> userData.phone, firstName |-> userData.firstName,
                lastName |-> userData.lastName, password |-> userData.password,
                role |-> "user"]
    IN  [throws |-> UniqueViolation(row, users), rows |-> users \cup {row},
         returning |-> row]

\* A nullable integer column holds the set of its value: NULL is the empty set
NullId == {}

\* insert into transactions values({...insertTransaction, userId,
\* groupId: groupId ?? null}) returning: the table after it, and the row.
\* userId and groupId are written after the spread and replace what it
\* holds; id and date take their defaults (the serial, now()) unless the
\* spread names them.  The routes pass no groupId.
createTransaction(insertTransaction, userId) ==
    LET Given(column, default) ==
            IF column \in DOMAIN insertTransaction THEN insertTransaction[column]
            ELSE default
        row == [id          |-> Given("id", nextTransactionId),
                userId      |-> userId,
                groupId     |-> NullId,
                type        |-> insertTransaction.type,
                amount      |-> DecimalCents(insertTransaction.amount),
                category    |-> insertTransaction.category,
                description |-> insertTransaction.description,
                date        |-> Given("date", clock)]
    IN  [rows |-> Append(transactions, row), returning |-> row]

\* deleteTransaction reporting success whatever rowCount is
deleteTransactionAlwaysTrue(id) ==
    [rows |-> SelectSeq(transactions, LAMBDA t : t.id # id), returning |-> TRUE]

\* delete from transactions where id = ...: the table after it, and
\* rowCount > 0
deleteTransaction(id) ==
    LET kept == SelectSeq(transactions, LAMBDA t : t.id # id)
    IN  [rows |-> kept, returning |-> Len(transactions) - Len(kept) > 0]

\* The filter on the type left out
OfAnyType(rows, type) == rows

\* rows.filter(t => t.type === type)
OfType(rows, type) == SelectSeq(rows, LAMBDA t : t.type = type)

\* rows.reduce((sum, t) => sum + parseFloat(t.amount), 0)
RECURSIVE SumAmounts(_, _)
SumAmounts(rows, sum) ==
    IF rows = <<>> THEN sum
    ELSE SumAmounts(Tail(rows), FAdd(sum, parseFloat(Head(rows).amount)))

getBalance(userId) ==
    LET userTransactions == SelectSeq(transactions, LAMBDA t : t.userId = userId)
        income   == SumAmounts(OfType(userTransactions, "income"), FZero)
        expenses == SumAmounts(OfType(userTransactions, "expense"), FZero)
    IN  [balance |-> FSub(income, expenses), income |-> income, expenses |-> expenses]

\* categoryTotals.set(category, (categoryTotals.get(category) || 0) + amount)
\* on a Map kept as the sequence of its entries, in insertion order
MapAdd(entries, category, amount) ==
    IF \E i \in 1..Len(entries) : entries[i].category = category
    THEN [i \in 1..Len(entries) |->
             IF entries[i].category = category
             THEN [entries[i] EXCEPT !.amount = FAdd(entries[i].amount, amount)]
             ELSE entries[i]]
    ELSE Append(entries, [category |-> category, amount |-> FAdd(FZero, amount)])

RECURSIVE CategoryTotals(_, _)
CategoryTotals(rows, entries) ==
    IF rows = <<>> THEN entries
    ELSE CategoryTotals(Tail(rows),
                        MapAdd(entries, Head(rows).category, parseFloat(Head(rows).amount)))

\* The comparator with its operands exchanged: a.amount - b.amount
SortsBeforeAscending(a, b) == FLess(FSub(a.amount, b.amount), FZero)

\* The comparator (a, b) => b.amount - a.amount is negative: a goes first
SortsBefore(a, b) == FLess(FSub(b.amount, a.amount), FZero)

\* A sort that is not stable: x goes in front of the first entry that does
\* not sort before it, its equals included
InsertBeforeEqual(sorted, x) ==
    LET at == {i \in 1..Len(sorted) : ~SortsBefore(sorted[i], x)}
        k  == IF at = {} THEN Len(sorted) + 1 ELSE CHOOSE i \in at : \A j \in at : i <= j
    IN  SubSeq(sorted, 1, k - 1) \o <<x>> \o SubSeq(sorted, k, Len(sorted))

\* Array.prototype.sort, which is stable: x goes in front of the first
\* entry it sorts before
Insert(sorted, x) ==
    LET at == {i \in 1..Len(sorted) : SortsBefore(x, sorted[i])}
        k  == IF at = {} THEN Len(sorted) + 1 ELSE CHOOSE i \in at : \A j \in at : i <= j
    IN  SubSeq(sorted, 1, k - 1) \o <<x>> \o SubSeq(sorted, k, Len(sorted))

RECURSIVE Sort(_, _)
Sort(entries, sorted) ==
    IF entries = <<>> THEN sorted ELSE Sort(Tail(entries), Insert(sorted, Head(entries)))

getCategorySpending(userId) ==
    LET userTransactions == SelectSeq(transactions, LAMBDA t : t.userId = userId)
        expenses      == OfType(userTransactions, "expense")
        totalExpenses == SumAmounts(expenses, FZero)
        totals        == CategoryTotals(expenses, <<>>)
        mapped        == [i \in 1..Len(totals) |->
                            [category   |-> totals[i].category,
                             amount     |-> totals[i].amount,
                             percentage |-> IF FPositive(totalExpenses)
                                            THEN FTimes100(FDiv(totals[i].amount, totalExpenses))
                                            ELSE FZero]]
    IN  Sort(mapped, <<>>)

\* The orders in which a query can return these rows
Orderings(rows) ==
    IF rows = <<>> THEN {<<>>}
    ELSE {[i \in 1..Len(rows) |-> rows[f[i]]] : f \in Permutations(1..Len(rows))}

\* getTransactions with the newest transaction first
getTransactionsNewestFirst(userId) ==
    {r \in Orderings(SelectSeq(transactions, LAMBDA t : t.userId = userId)) :
        \A i \in 1..(Len(r) - 1) : r[i].date >= r[i + 1].date}

\* select ... where user_id = ... order by date: the results the database
\* can return (rows of one date come in any order)
getTransactions(userId) ==
    {r \in Orderings(SelectSeq(transactions, LAMBDA t : t.userId = userId)) :
        \A i \in 1..(Len(r) - 1) : r[i].date <= r[i + 1].date}

\* select ... where id = ...: the row, if there is one
getTransactionById(id) == {transactions[i] : i \in {j \in 1..Len(transactions) : transactions[j].id = id}}

\* select ... where group_id = ... order by date
getGroupTransactions(groupId) ==
    {r \in Orderings(SelectSeq(transactions, LAMBDA t : groupId \in t.groupId)) :
        \A i \in 1..(Len(r) - 1) : r[i].date <= r[i + 1].date}

getGroupBalance(groupId) ==
    LET groupTransactions == SelectSeq(transactions, LAMBDA t : groupId \in t.groupId)
        income   == SumAmounts(OfType(groupTransactions, "income"), FZero)
        expenses == SumAmounts(OfType(groupTransactions, "expense"), FZero)
    IN  [balance |-> FSub(income, expenses), income |-> income, expenses |-> expenses]

\* select ... where user_id = ...: the dates are not part of the query
getTransactionsByDateRange(startDate, endDate, userId) ==
    SelectSeq(transactions, LAMBDA t : t.userId = userId)

\* select ... where user_id = ...: the category is not part of the query
getTransactionsByCategory(category, userId) ==
    SelectSeq(transactions, LAMBDA t : t.userId = userId)

\* insert into groups ... returning: the table after it, and the row; name
\* is NOT NULL
createGroup(groupData, adminId) ==
    LET row == [id |-> nextGroupId, name |-> groupData.name,
                description |-> groupData.description, adminId |-> adminId]
    IN  [throws |-> groupData.name = Null, rows |-> Append(groups, row), returning |-> row]

getGroupsByAdmin(adminId) == SelectSeq(groups, LAMBDA g : g.adminId = adminId)

\* canAddExpense ? "true" : "false": the condition of a JSON value, written
\* as its text (true, false, "false", 1), or of undefined when the body has
\* no such key; false, null, 0, "" and undefined are the falsy ones
Truthy(value) == value \notin {"false", "undefined", "null", "0", "\"\""}

\* insert into user_groups ... returning: the table after it, and the row;
\* group_id references groups.id, and no constraint is on (user_id, group_id)
addUserToGroup(userId, groupId, canAddExpense) ==
    LET row == [id |-> nextUserGroupId, userId |-> userId, groupId |-> groupId,
                canAddExpense |-> IF Truthy(canAddExpense) THEN "true" ELSE "false"]
    IN  [throws |-> \A i \in 1..Len(groups) : groups[i].id # groupId,
         rows |-> Append(userGroups, row), returning |-> row]

\* delete from user_groups where user_id = ... and group_id = ...
removeUserFromGroup(userId, groupId) ==
    LET kept == SelectSeq(userGroups, LAMBDA m : ~(m.userId = userId /\ m.groupId = groupId))
    IN  [rows |-> kept, returning |-> Len(userGroups) - Len(kept) > 0]

\* select ... where user_id = ... and group_id = ...: the rows (the method
\* returns the first)
getUserGroupPermission(userId, groupId) ==
    SelectSeq(userGroups, LAMBDA m : m.userId = userId /\ m.groupId = groupId)

\* users inner join user_groups where group_id = ...: one entry for every
\* membership row
getGroupMembers(groupId) ==
    LET members == SelectSeq(userGroups, LAMBDA m : m.groupId = groupId)
    IN  [i \in 1..Len(members) |->
            LET user == CHOOSE u \in users : u.id = members[i].userId
            IN  [id |-> user.id, firstName |-> user.firstName, lastName |-> user.lastName,
                 email |-> user.email, canAddExpense |-> members[i].canAddExpense = "true"]]

(***************************************************************************)
(* Request handlers (server/routes.ts).  Each handler is one step: it      *)
(* takes its request while no response is being sent, and leaves its       *)
(* response in res; Finish is the response leaving the server.             *)
(***************************************************************************)
NoResponse == [op |-> "none"]

\* A response, and with it the storage methods the handler has awaited on
\* the way to it (none unless Calling names them)
Response(op, caller, req, status, body) ==
    [op |-> op, caller |-> caller, req |-> req, status |-> status, body |-> body,
     calls |-> <<>>]

Calling(calls, response) == [response EXCEPT !.calls = calls]

\* The isAuthenticated middleware: the request carries a session
isAuthenticated(caller) == caller # NoSession

Unauthorized(op, caller, req) ==
    Response(op, caller, req, 401, [message |-> "Unauthorized"])

\* A route registered without the middleware: app.get(path, handler)
Unprotected(op, caller, req, handled) == handled

\* app.get(path, isAuthenticated, handler): the handler runs only when the
\* middleware lets the request through
Protected(op, caller, req, handled) ==
    IF ~isAuthenticated(caller) THEN Unauthorized(op, caller, req) ELSE handled

\* insertTransactionSchema.safeParse(body).success
ValidTransaction(body) ==
    /\ body.type \in TransactionTypes
    /\ Len(body.amount) >= 1

\* The schema parsing with .passthrough(): unknown keys are kept
ParseTransactionPassthrough(body) == body

\* insertTransactionSchema.safeParse(body).data: the keys of the schema,
\* which omits id, date, userId and groupId; a zod object drops other keys
ParseTransaction(body) ==
    [f \in DOMAIN body \cap {"type", "amount", "category", "description"} |-> body[f]]

\* The request bodies of POST /api/transactions
TransactionBodies ==
    {[type |-> "expense", amount |-> a, category |-> c, description |-> "d"] :
        a \in {"0.10", "0.20"}, c \in {"Food & Dining", "Shopping"}}
    \cup {[type |-> "income", amount |-> a, category |-> "Salary", description |-> "d"] :
        a \in {"0.10", "0.20"}}
    \cup {[type |-> "expense", amount |-> a, category |-> "Food & Dining", description |-> "d"] :
        a \in AmountTexts \ {"0.10", "0.20"}}
    \cup {[type |-> "transfer", amount |-> "0.10", category |-> "Shopping", description |-> "d"]}

\* The :id parameters of DELETE /api/transactions/:id, and parseInt of them
IdParams == {ToString(i) : i \in 1..MaxTransactionId} \cup {"abc"}

IsNaN(text) == \A i \in 1..MaxTransactionId : ToString(i) # text

parseInt(text) == CHOOSE i \in 1..MaxTransactionId : ToString(i) = text

Idle == res = NoResponse

LedgerUnchanged == UNCHANGED <<transactions, nextTransactionId, clock, deletes>>

GroupsUnchanged == UNCHANGED <<groups, nextGroupId, userGroups, nextUserGroupId>>

AccountsUnchanged == UNCHANGED <<users, nextUserId, signups>>

\* GET /api/balance
GetBalance(caller) ==
    /\ Idle
    /\ res' = Protected("GET /api/balance", caller, Null,
                        Calling(<<"getBalance">>,
                                Response("GET /api/balance", caller, Null, 200,
                                         getBalance(caller))))
    /\ LedgerUnchanged /\ AccountsUnchanged /\ GroupsUnchanged

\* GET /api/category-spending
GetCategorySpending(caller) ==
    /\ Idle
    /\ res' = Protected("GET /api/category-spending", caller, Null,
                        Calling(<<"getCategorySpending">>,
                                Response("GET /api/category-spending", caller, Null, 200,
                                         getCategorySpending(caller))))
    /\ LedgerUnchanged /\ AccountsUnchanged /\ GroupsUnchanged

\* POST /api/transactions
PostTransaction(caller, body) ==
    /\ Idle
    /\ nextTransactionId <= MaxTransactionId
    /\ IF ~isAuthenticated(caller)
       THEN /\ res' = Unauthorized("POST /api/transactions", caller, body)
            /\ LedgerUnchanged
       ELSE IF ~ValidTransaction(body)
       THEN /\ res' = Response("POST /api/transactions", caller, body, 400,
                               [message |-> "Invalid transaction data"])
            /\ LedgerUnchanged
       ELSE IF ~IsNumeric(body.amount) \/ getUser(caller) = {}
       THEN /\ res' = Calling(<<"createTransaction">>,
                               Response("POST /api/transactions", caller, body, 500,
                                        [message |-> "Failed to create transaction"]))
            /\ LedgerUnchanged
       ELSE LET created == createTransaction(ParseTransaction(body), caller)
            IN  /\ transactions' = created.rows
                /\ nextTransactionId' = nextTransactionId + 1
                /\ UNCHANGED <<clock, deletes>>
                /\ res' = Calling(<<"createTransaction">>,
                                  Response("POST /api/transactions", caller, body, 201,
                                           created.returning))
    /\ AccountsUnchanged /\ GroupsUnchanged

\* DELETE /api/transactions/:id
DeleteTransaction(caller, id) ==
    /\ Idle
    /\ IF ~isAuthenticated(caller)
       THEN /\ res' = Unauthorized("DELETE /api/transactions/:id", caller, id)
            /\ UNCHANGED transactions
       ELSE IF IsNaN(id)
       THEN /\ res' = Response("DELETE /api/transactions/:id", caller, id, 400,
                               [message |-> "Invalid transaction ID"])
            /\ UNCHANGED transactions
       ELSE LET deleted == deleteTransaction(parseInt(id))
            IN  /\ transactions' = deleted.rows
                /\ res' = Calling(<<"deleteTransaction">>,
                            IF ~deleted.returning
                            THEN Response("DELETE /api/transactions/:id", caller, id, 404,
                                          [message |-> "Transaction not found"])
                            ELSE Response("DELETE /api/transactions/:id", caller, id, 200,
                                          [message |-> "Transaction deleted successfully"]))
    /\ UNCHANGED <<nextTransactionId, clock, deletes>>
    /\ AccountsUnchanged /\ GroupsUnchanged

(***************************************************************************)
(* Queries: the list of transactions, the date range, and the storage      *)
(* methods no route of this version calls.                                 *)
(***************************************************************************)
\* Bound: the last day the clock reaches.
MaxClock == 1

\* Bound: the serial of groups stops at this id.
MaxGroupId == 1

\* A session whose user has no row in the users table
NoAccount == "user_9"

Requesters == Callers \cup {NoAccount}

\* The date of a day as the query string carries it
IsoDate(day) == "2024-01-0" \o ToString(day + 1)

\* The startDate and endDate parameters; "" is a parameter left out
DateTexts == {IsoDate(day) : day \in 0..MaxClock} \cup {"", "abc"}

\* The check of the parsed dates left out
InvalidDateNever(text) == FALSE

\* isNaN(new Date(text).getTime())
InvalidDate(text) == \A day \in 0..MaxClock : IsoDate(day) # text

\* new Date(text), in days
DateOf(text) == CHOOSE day \in 0..MaxClock : IsoDate(day) = text

\* The query strings of GET /api/transactions/range
RangeParams ==
    {<<IsoDate(a), IsoDate(b)>> : a \in 0..MaxClock, b \in 0..MaxClock}
    \cup {<<"", IsoDate(0)>>, <<IsoDate(0), "">>, <<"abc", IsoDate(0)>>, <<IsoDate(0), "abc">>}

Categories == {"Food & Dining", "Shopping", "Salary"}

\* The request bodies of POST /api/transactions the queries are run on
QueryBodies ==
    {[type |-> "expense", amount |-> "0.10", category |-> "Food & Dining", description |-> "d"],
     [type |-> "income", amount |-> "0.20", category |-> "Salary", description |-> "d"],
     [type |-> "expense", amount |-> "0.10", category |-> "Food & Dining", description |-> "d",
      userId |-> "user_2", id |-> MaxTransactionId, date |-> MaxClock, groupId |-> 1]}

\* A day passes
Tick ==
    /\ Idle
    /\ clock < MaxClock
    /\ clock' = clock + 1
    /\ UNCHANGED <<transactions, nextTransactionId, deletes, res>>
    /\ AccountsUnchanged /\ GroupsUnchanged

\* GET /api/transactions
GetTransactions(caller) ==
    /\ Idle
    /\ \E rows \in getTransactions(caller) :
          res' = Protected("GET /api/transactions", caller, Null,
                           Calling(<<"getTransactions">>,
                                   Response("GET /api/transactions", caller, Null, 200, rows)))
    /\ LedgerUnchanged /\ AccountsUnchanged /\ GroupsUnchanged

\* GET /api/transactions/range?startDate=...&endDate=...
GetTransactionsRange(caller, startDate, endDate) ==
    /\ Idle
    /\ res' = Protected("GET /api/transactions/range", caller, <<startDate, endDate>>,
                 IF startDate = "" \/ endDate = ""
                 THEN Response("GET /api/transactions/range", caller, <<startDate, endDate>>, 400,
                               [message |-> "Start date and end date are required"])
                 ELSE IF InvalidDate(startDate) \/ InvalidDate(endDate)
                 THEN Response("GET /api/transactions/range", caller, <<startDate, endDate>>, 400,
                               [message |-> "Invalid date format"])
                 ELSE Calling(<<"getTransactionsByDateRange">>,
                              Response("GET /api/transactions/range", caller,
                                       <<startDate, endDate>>, 200,
                                       getTransactionsByDateRange(DateOf(startDate),
                                                                  DateOf(endDate), caller))))
    /\ LedgerUnchanged /\ AccountsUnchanged /\ GroupsUnchanged

\* A storage method called by itself: no request, no status (0), the body is
\* what the method returns
Returned(method, scope, argument, result) ==
    Calling(<<method>>, Response(method, scope, argument, 0, result))

\* storage.getTransactionsByCategory(category, userId)
GetTransactionsByCategory(category, userId) ==
    /\ Idle
    /\ res' = Returned("getTransactionsByCategory", userId, category,
                       getTransactionsByCategory(category, userId))
    /\ LedgerUnchanged /\ AccountsUnchanged /\ GroupsUnchanged

\* getTransactionById written as delete ... returning
TakeTransactionById(id) ==
    /\ Idle
    /\ res' = Returned("getTransactionById", Null, id, getTransactionById(id))
    /\ transactions' = SelectSeq(transactions, LAMBDA t : t.id # id)
    /\ UNCHANGED <<nextTransactionId, clock, deletes>>
    /\ AccountsUnchanged /\ GroupsUnchanged

\* storage.getTransactionById(id)
GetTransactionById(id) ==
    /\ Idle
    /\ res' = Returned("getTransactionById", Null, id, getTransactionById(id))
    /\ LedgerUnchanged /\ AccountsUnchanged /\ GroupsUnchanged

\* storage.getGroupBalance(groupId)
GetGroupBalance(groupId) ==
    /\ Idle
    /\ res' = Returned("getGroupBalance", Null, groupId, getGroupBalance(groupId))
    /\ LedgerUnchanged /\ AccountsUnchanged /\ GroupsUnchanged

(***************************************************************************)
(* Groups.  registerRoutes registers two handlers for each admin route     *)
(* (server/storage.ts, from line 612 and again from line 804); the first   *)
(* one registered answers the request, so the second never runs.           *)
(***************************************************************************)
\* Bound: the serial of user_groups stops at this id.
MaxUserGroupId == 2

\* An administrator and a user, the accounts the groups are exercised with
GroupUsers ==
    { [id |-> "user_1", email |-> "a@x.io", phone |-> Null, firstName |-> "Al",
       lastName |-> "Ay", password |-> Hash("secret1"), role |-> "admin"],
      [id |-> "user_2", email |-> "b@x.io", phone |-> Null, firstName |-> "Al",
       lastName |-> "Ay", password |-> Hash("secret2"), role |-> "user"] }

AdminUsers == {[u EXCEPT !.role = "admin"] : u \in GroupUsers}

\* !user || user.role !== "admin" is false
IsAdmin(caller) == \E user \in getUser(caller) : user.role = "admin"

\* requireAdmin letting every request through
requireAdminAlwaysNext(op, caller, req, handled) ==
    Calling(<<"getUser">> \o handled.calls, handled)

\* The requireAdmin middleware in front of a handler
requireAdmin(op, caller, req, handled) ==
    IF ~IsAdmin(caller)
    THEN Calling(<<"getUser">>,
                 Response(op, caller, req, 403, [message |-> "Admin access required"]))
    ELSE Calling(<<"getUser">> \o handled.calls, handled)

\* The request bodies of POST /api/admin/groups
GroupBodies == {[name |-> "Trip", description |-> "d"], [name |-> Null, description |-> "d"]}

\* The :groupId parameters, and parseInt of them (none: NaN)
GroupIdParams == {ToString(i) : i \in 1..MaxGroupId} \cup {"abc"}

GroupIdOf(text) == {i \in 1..MaxGroupId : ToString(i) = text}

\* The request bodies of POST /api/admin/groups/:groupId/members
MemberBodies ==
    {[email |-> "b@x.io", canAddExpense |-> c] :
        c \in {"true", "false", "undefined", "\"false\""}}
    \cup {[email |-> "nobody@x.io", canAddExpense |-> "true"]}

\* Request bodies of POST /api/transactions: one that names a group, and
\* ones with an empty category, an empty description and an unknown type
GroupTransactionBodies ==
    {[type |-> "expense", amount |-> "0.10", category |-> "Shopping", description |-> "d",
      groupId |-> 1],
     [type |-> "expense", amount |-> "0.10", category |-> "", description |-> "d"],
     [type |-> "income", amount |-> "0.20", category |-> "Salary", description |-> ""],
     [type |-> "transfer", amount |-> "0.10", category |-> "Shopping", description |-> "d"]}

\* POST /api/admin/groups
PostAdminGroup(caller, body) ==
    /\ Idle
    /\ nextGroupId <= MaxGroupId
    /\ LET created == createGroup(body, caller)
           answer  == Protected("POST /api/admin/groups", caller, body,
                         requireAdmin("POST /api/admin/groups", caller, body,
                            Calling(<<"createGroup">>,
                               IF created.throws
                               THEN Response("POST /api/admin/groups", caller, body, 500,
                                             [message |-> "Failed to create group"])
                               ELSE Response("POST /api/admin/groups", caller, body, 200,
                                             created.returning))))
       IN  /\ res' = answer
           /\ IF answer.status = 200
              THEN groups' = created.rows /\ nextGroupId' = nextGroupId + 1
              ELSE UNCHANGED <<groups, nextGroupId>>
    /\ UNCHANGED <<userGroups, nextUserGroupId>>
    /\ LedgerUnchanged /\ AccountsUnchanged

\* GET /api/admin/groups
GetAdminGroups(caller) ==
    /\ Idle
    /\ res' = Protected("GET /api/admin/groups", caller, Null,
                 requireAdmin("GET /api/admin/groups", caller, Null,
                    Calling(<<"getGroupsByAdmin">>,
                            Response("GET /api/admin/groups", caller, Null, 200,
                                     getGroupsByAdmin(caller)))))
    /\ LedgerUnchanged /\ AccountsUnchanged /\ GroupsUnchanged

\* GET /api/admin/groups/:groupId/members
GetGroupMembers(caller, groupId) ==
    /\ Idle
    /\ res' = Protected("GET /api/admin/groups/:groupId/members", caller, groupId,
                 Calling(<<"getGroupMembers">>,
                    IF GroupIdOf(groupId) = {}
                    THEN Response("GET /api/admin/groups/:groupId/members", caller, groupId,
                                  500, [message |-> "Failed to fetch group members"])
                    ELSE Response("GET /api/admin/groups/:groupId/members", caller, groupId,
                                  200, getGroupMembers(CHOOSE g \in GroupIdOf(groupId) : TRUE))))
    /\ LedgerUnchanged /\ AccountsUnchanged /\ GroupsUnchanged

\* POST /api/admin/groups/:groupId/members
PostGroupMember(caller, groupId, body) ==
    /\ Idle
    /\ nextUserGroupId <= MaxUserGroupId
    /\ LET op     == "POST /api/admin/groups/:groupId/members"
           req    == <<groupId, body>>
           user   == getUserByEmail(body.email)
           added  == addUserToGroup((CHOOSE u \in user : TRUE).id,
                                    CHOOSE g \in GroupIdOf(groupId) : TRUE,
                                    body.canAddExpense)
           answer == Protected(op, caller, req,
                        IF user = {}
                        THEN Calling(<<"getUserByEmail">>,
                                     Response(op, caller, req, 404,
                                              [message |-> "User not found"]))
                        ELSE Calling(<<"getUserByEmail", "addUserToGroup">>,
                                IF GroupIdOf(groupId) = {} \/ added.throws
                                THEN Response(op, caller, req, 500,
                                              [message |-> "Failed to add user to group"])
                                ELSE Response(op, caller, req, 200, added.returning)))
       IN  /\ res' = answer
           /\ IF answer.status = 200
              THEN userGroups' = added.rows /\ nextUserGroupId' = nextUserGroupId + 1
              ELSE UNCHANGED <<userGroups, nextUserGroupId>>
    /\ UNCHANGED <<groups, nextGroupId>>
    /\ LedgerUnchanged /\ AccountsUnchanged

\* DELETE /api/admin/groups/:groupId/members/:userId
DeleteGroupMember(caller, groupId, userId) ==
    /\ Idle
    /\ LET op      == "DELETE /api/admin/groups/:groupId/members/:userId"
           req     == <<groupId, userId>>
           removed == removeUserFromGroup(userId, CHOOSE g \in GroupIdOf(groupId) : TRUE)
           answer  == Protected(op, caller, req,
                         Calling(<<"removeUserFromGroup">>,
                            IF GroupIdOf(groupId) = {}
                            THEN Response(op, caller, req, 500,
                                          [message |-> "Failed to remove user from group"])
                            ELSE IF removed.returning
                            THEN Response(op, caller, req, 200,
                                          [message |-> "User removed from group"])
                            ELSE Response(op, caller, req, 404,
                                          [message |-> "User not found in group"])))
       IN  /\ res' = answer
           /\ userGroups' = IF answer.status = 200 THEN removed.rows ELSE userGroups
    /\ UNCHANGED <<groups, nextGroupId, nextUserGroupId>>
    /\ LedgerUnchanged /\ AccountsUnchanged

(***************************************************************************)
(* Accounts: signup, signin and the session's user (server/routes.ts).     *)
(***************************************************************************)
\* Bound: createUser stops at this generated id.
MaxUserId == 2

\* Bound: the number of signup requests in flight at once.
MaxInFlight == 2

Emails == {"a@x.io", "b@x.io"}

\* z.string().email()
IsEmail(text) == text \in Emails

ValidSignup(body) ==
    /\ Len(body.firstName) >= 2
    /\ Len(body.lastName) >= 2
    /\ body.email = Null \/ IsEmail(body.email)
    /\ body.phone = Null \/ Len(body.phone) >= 10
    /\ Len(body.password) >= 6
    /\ body.signupMethod \in {"email", "phone"}

ValidSignin(body) ==
    /\ Len(body.password) >= 6
    /\ body.signinMethod \in {"email", "phone"}

SignupBody(firstName, email, phone, password, signupMethod) ==
    [firstName |-> firstName, lastName |-> "Ay", email |-> email, phone |-> phone,
     password |-> password, signupMethod |-> signupMethod]

\* The request bodies of POST /api/auth/signup
SignupBodies ==
    {SignupBody("Al", e, Null, "secret1", "email") : e \in Emails}
    \cup {SignupBody("Al", Null, "5550001111", "secret2", "phone"),
          SignupBody("A", "a@x.io", Null, "secret1", "email"),
          SignupBody("Al", "a.x.io", Null, "secret1", "email"),
          SignupBody("Al", Null, "555", "secret1", "phone"),
          SignupBody("Al", "a@x.io", Null, "short", "email"),
          SignupBody("Al", "a@x.io", Null, "secret1", "sms")}

\* The request bodies of POST /api/auth/signin
SigninBodies ==
    {[email |-> e, phone |-> Null, password |-> p, signinMethod |-> "email"] :
        e \in Emails, p \in {"secret1", "secret2", "short"}}
    \cup {[email |-> Null, phone |-> "5550001111", password |-> p, signinMethod |-> "phone"] :
        p \in {"secret1", "secret2"}}
    \cup {[email |-> "a@x.io", phone |-> Null, password |-> "secret1", signinMethod |-> "sms"]}

\* The rows an identity provider's login upserts: no phone, no password
UpsertRows ==
    {[id |-> "101", email |-> e, firstName |-> "Al", lastName |-> "Ay"] : e \in Emails}

\* const { password: _, ...userResponse } = user
WithoutPassword(user) == [f \in DOMAIN user \ {"password"} |-> user[f]]

\* The lookup of signup and signin by the method's identifier
Existing(method, body) ==
    IF method = "email" THEN getUserByEmail(body.email) ELSE getUserByPhone(body.phone)

\* POST /api/auth/signup up to the lookup: the request is rejected, or goes
\* on to hash the password and insert
SignupLookup(p, body) ==
    /\ Idle
    /\ p \notin DOMAIN signups
    /\ nextUserId + Cardinality(DOMAIN signups) <= MaxUserId
    /\ IF ~ValidSignup(body)
       THEN /\ res' = Response("POST /api/auth/signup", NoSession, body, 400,
                               [message |-> "Invalid signup data"])
            /\ UNCHANGED signups
       ELSE IF Existing(body.signupMethod, body) # {}
       THEN /\ res' = Calling(<<"getUserBy">>,
                               Response("POST /api/auth/signup", NoSession, body, 409,
                                        [message |-> "User with this " \o body.signupMethod
                                                        \o " already exists"]))
            /\ UNCHANGED signups
       ELSE /\ signups' = (p :> body) @@ signups
            /\ UNCHANGED res
    /\ UNCHANGED <<users, nextUserId>>
    /\ LedgerUnchanged /\ GroupsUnchanged

\* POST /api/auth/signup from bcrypt.hash on
SignupCreate(p) ==
    /\ Idle
    /\ p \in DOMAIN signups
    /\ LET body    == signups[p]
           created == createUser([firstName |-> body.firstName,
                                  lastName  |-> body.lastName,
                                  email     |-> IF body.signupMethod = "email"
                                                THEN body.email ELSE Null,
                                  phone     |-> IF body.signupMethod = "phone"
                                                THEN body.phone ELSE Null,
                                  password  |-> Hash(body.password)])
       IN  IF created.throws
           THEN /\ res' = Calling(<<"getUserBy", "createUser">>,
                                   Response("POST /api/auth/signup", NoSession, body, 500,
                                            [message |-> "Failed to create account"]))
                /\ UNCHANGED <<users, nextUserId>>
           ELSE /\ users' = created.rows
                /\ nextUserId' = nextUserId + 1
                /\ res' = Calling(<<"getUserBy", "createUser">>,
                                  Response("POST /api/auth/signup", NoSession, body, 201,
                                           [message |-> "Account created successfully",
                                            user    |-> WithoutPassword(created.returning)]))
    /\ signups' = [q \in DOMAIN signups \ {p} |-> signups[q]]
    /\ LedgerUnchanged /\ GroupsUnchanged

\* POST /api/auth/signin
Signin(body) ==
    /\ Idle
    /\ res' =
          IF ~ValidSignin(body)
          THEN Response("POST /api/auth/signin", NoSession, body, 400,
                        [message |-> "Invalid signin data"])
          ELSE Calling(<<"getUserBy">>,
               LET found == Existing(body.signinMethod, body)
               IN  IF found = {}
                   THEN Response("POST /api/auth/signin", NoSession, body, 401,
                                 [message |-> "Invalid credentials"])
                   ELSE LET user == CHOOSE u \in found : TRUE
                        IN  IF CompareThrows(user.password)
                            THEN Response("POST /api/auth/signin", NoSession, body, 500,
                                          [message |-> "Failed to sign in"])
                            ELSE IF ~Compare(body.password, user.password)
                            THEN Response("POST /api/auth/signin", NoSession, body, 401,
                                          [message |-> "Invalid credentials"])
                            ELSE Response("POST /api/auth/signin", NoSession, body, 200,
                                          [message |-> "Signed in successfully",
                                           user    |-> WithoutPassword(user)]))
    /\ LedgerUnchanged /\ AccountsUnchanged /\ GroupsUnchanged

\* GET /api/auth/user: the body is the row of the session's user as
\* getUser returns it, none when there is no such row
GetAuthUser(caller) ==
    /\ Idle
    /\ res' = IF ~isAuthenticated(caller)
              THEN Unauthorized("GET /api/auth/user", caller, Null)
              ELSE Calling(<<"getUser">>,
                           Response("GET /api/auth/user", caller, Null, 200,
                                    getUser(caller)))
    /\ LedgerUnchanged /\ AccountsUnchanged /\ GroupsUnchanged

\* A login through the identity provider stores its user
UpsertUser(userData) ==
    /\ Idle
    /\ users' = upsertUser(userData)
    /\ UNCHANGED <<nextUserId, signups, res>>
    /\ LedgerUnchanged /\ GroupsUnchanged

\* The response has been sent
(***************************************************************************)
(* DELETE /api/transactions/:id in its two steps: the handler up to        *)
(* await storage.deleteTransaction(id), and from the statement's result    *)
(* to the response.  Requests that wait are interleaved freely.  deletes   *)
(* keeps, for each request, whether its row was stored when it came, and   *)
(* its status once it is answered (0 before).                              *)
(***************************************************************************)
\* The bodies of the transactions that are deleted
DeletedBodies ==
    {[type |-> "expense", amount |-> "0.10", category |-> "Shopping", description |-> "d"]}

\* The handler up to the await
DeleteReceive(p, caller, id) ==
    /\ Idle
    /\ p \notin DOMAIN deletes
    /\ IF ~isAuthenticated(caller)
       THEN /\ res' = Unauthorized("DELETE /api/transactions/:id", caller, id)
            /\ UNCHANGED deletes
       ELSE IF IsNaN(id)
       THEN /\ res' = Response("DELETE /api/transactions/:id", caller, id, 400,
                               [message |-> "Invalid transaction ID"])
            /\ UNCHANGED deletes
       ELSE /\ deletes' = (p :> [caller |-> caller, id |-> id,
                                 existed |-> getTransactionById(parseInt(id)) # {},
                                 status |-> 0]) @@ deletes
            /\ UNCHANGED res
    /\ UNCHANGED <<transactions, nextTransactionId, clock>>
    /\ AccountsUnchanged /\ GroupsUnchanged

\* A handler that looks the row up first and reports what it found then
DeleteCompleteAsFound(p) ==
    /\ Idle
    /\ p \in DOMAIN deletes
    /\ deletes[p].status = 0
    /\ LET deleted == deleteTransaction(parseInt(deletes[p].id))
           status  == IF deletes[p].existed THEN 200 ELSE 404
       IN  /\ transactions' = deleted.rows
           /\ deletes' = [deletes EXCEPT ![p].status = status]
           /\ res' = Calling(<<"getTransactionById", "deleteTransaction">>,
                       Response("DELETE /api/transactions/:id", deletes[p].caller,
                                deletes[p].id, status, [message |-> "sent"]))
    /\ UNCHANGED <<nextTransactionId, clock>>
    /\ AccountsUnchanged /\ GroupsUnchanged

\* The statement delete from transactions where id = ..., which the database
\* runs as one step, and the handler from its result on
DeleteComplete(p) ==
    /\ Idle
    /\ p \in DOMAIN deletes
    /\ deletes[p].status = 0
    /\ LET deleted == deleteTransaction(parseInt(deletes[p].id))
           op      == "DELETE /api/transactions/:id"
           answer  == Calling(<<"deleteTransaction">>,
                         IF ~deleted.returning
                         THEN Response(op, deletes[p].caller, deletes[p].id, 404,
                                       [message |-> "Transaction not found"])
                         ELSE Response(op, deletes[p].caller, deletes[p].id, 200,
                                       [message |-> "Transaction deleted successfully"]))
       IN  /\ transactions' = deleted.rows
           /\ deletes' = [deletes EXCEPT ![p].status = answer.status]
           /\ res' = answer
    /\ UNCHANGED <<nextTransactionId, clock>>
    /\ AccountsUnchanged /\ GroupsUnchanged

(***************************************************************************)
(* MemStorage (server/storage.ts) and its routes, which have no session.   *)
(* transactions is the Map in the order of its insertions, and             *)
(* nextTransactionId is currentId.                                         *)
(***************************************************************************)
\* Bound: currentId stops after this id.
MaxMemId == 6

\* The sample records, their dates in days from now
sampleTransactions ==
    << [type |-> "income", amount |-> "3200.00", category |-> "Salary",
        description |-> "Monthly salary", date |-> -1],
       [type |-> "expense", amount |-> "4.50", category |-> "Food & Dining",
        description |-> "Coffee Shop", date |-> 0],
       [type |-> "expense", amount |-> "42.80", category |-> "Transportation",
        description |-> "Gas Station", date |-> -2],
       [type |-> "expense", amount |-> "127.45", category |-> "Shopping",
        description |-> "Grocery Store", date |-> -3] >>

\* for (const transaction of sampleTransactions) { id = this.currentId++ ... }
\* from currentId = 1
seedData ==
    [i \in 1..Len(sampleTransactions) |->
        [id          |-> i,
         type        |-> sampleTransactions[i].type,
         amount      |-> sampleTransactions[i].amount,
         category    |-> sampleTransactions[i].category,
         description |-> sampleTransactions[i].description,
         date        |-> sampleTransactions[i].date]]

\* Map.set(id, row): the entry of id is replaced where it is, a new one goes
\* to the end
MapSet(rows, row) ==
    IF \E i \in 1..Len(rows) : rows[i].id = row.id
    THEN [i \in 1..Len(rows) |-> IF rows[i].id = row.id THEN row ELSE rows[i]]
    ELSE Append(rows, row)

\* The id taken from the size of the map: this.transactions.size + 1
MemCreateTransactionBySize(insertTransaction) ==
    LET row == [id          |-> Len(transactions) + 1,
                type        |-> insertTransaction.type,
                amount      |-> insertTransaction.amount,
                category    |-> insertTransaction.category,
                description |-> insertTransaction.description,
                date        |-> clock]
    IN  [rows |-> MapSet(transactions, row), currentId |-> nextTransactionId + 1,
         returning |-> row]

\* MemStorage.createTransaction: id = this.currentId++, and
\* {...insertTransaction, id, date: new Date()} is set under id
MemCreateTransaction(insertTransaction) ==
    LET row == [id          |-> nextTransactionId,
                type        |-> insertTransaction.type,
                amount      |-> insertTransaction.amount,
                category    |-> insertTransaction.category,
                description |-> insertTransaction.description,
                date        |-> clock]
    IN  [rows |-> MapSet(transactions, row), currentId |-> nextTransactionId + 1,
         returning |-> row]

\* MemStorage.deleteTransaction: this.transactions.delete(id)
MemDeleteTransaction(id) ==
    [rows |-> SelectSeq(transactions, LAMBDA t : t.id # id),
     returning |-> \E i \in 1..Len(transactions) : transactions[i].id = id]

MemBodies ==
    {[type |-> "expense", amount |-> "4.50", category |-> "Food & Dining", description |-> "d"],
     [type |-> "income", amount |-> "0.20", category |-> "Salary", description |-> "d"],
     [type |-> "transfer", amount |-> "0.10", category |-> "Shopping", description |-> "d"]}

MemIdParams == {ToString(i) : i \in 1..MaxMemId} \cup {"abc"}

MemIdOf(text) == {i \in 1..MaxMemId : ToString(i) = text}

\* POST /api/transactions
MemPostTransaction(body) ==
    /\ Idle
    /\ nextTransactionId <= MaxMemId
    /\ IF ~ValidTransaction(body)
       THEN /\ res' = Response("POST /api/transactions", Null, body, 400,
                               [message |-> "Invalid transaction data"])
            /\ UNCHANGED <<transactions, nextTransactionId>>
       ELSE LET created == MemCreateTransaction(ParseTransaction(body))
            IN  /\ transactions' = created.rows
                /\ nextTransactionId' = created.currentId
                /\ res' = Calling(<<"createTransaction">>,
                                  Response("POST /api/transactions", Null, body, 201,
                                           created.returning))
    /\ UNCHANGED <<clock, deletes>>
    /\ AccountsUnchanged /\ GroupsUnchanged

\* DELETE /api/transactions/:id
MemDeleteRoute(id) ==
    /\ Idle
    /\ IF MemIdOf(id) = {}
       THEN /\ res' = Response("DELETE /api/transactions/:id", Null, id, 400,
                               [message |-> "Invalid transaction ID"])
            /\ UNCHANGED transactions
       ELSE LET deleted == MemDeleteTransaction(CHOOSE i \in MemIdOf(id) : TRUE)
            IN  /\ transactions' = deleted.rows
                /\ res' = Calling(<<"deleteTransaction">>,
                            IF ~deleted.returning
                            THEN Response("DELETE /api/transactions/:id", Null, id, 404,
                                          [message |-> "Transaction not found"])
                            ELSE Response("DELETE /api/transactions/:id", Null, id, 200,
                                          [message |-> "Transaction deleted successfully"]))
    /\ UNCHANGED <<nextTransactionId, clock, deletes>>
    /\ AccountsUnchanged /\ GroupsUnchanged

Finish ==
    /\ ~Idle
    /\ res' = NoResponse
    /\ LedgerUnchanged /\ AccountsUnchanged /\ GroupsUnchanged

NoSignups == [p \in {} |-> Null]

NoDeletes == [p \in {} |-> Null]

\* The ledger of two registered users
Init ==
    /\ users = RegisteredUsers
    /\ nextUserId = 3
    /\ signups = NoSignups
    /\ transactions = <<>>
    /\ nextTransactionId = 1
    /\ clock = 0
    /\ deletes = NoDeletes
    /\ groups = <<>>
    /\ nextGroupId = 1
    /\ userGroups = <<>>
    /\ nextUserGroupId = 1
    /\ res = NoResponse

Next ==
    \/ \E caller \in Callers : GetBalance(caller)
    \/ \E caller \in Callers : GetCategorySpending(caller)
    \/ \E caller \in Callers, body \in TransactionBodies : PostTransaction(caller, body)
    \/ \E caller \in Callers, id \in IdParams : DeleteTransaction(caller, id)
    \/ Finish

Spec == Init /\ [][Next]_vars

\* The accounts, from an empty users table
InitAuth ==
    /\ users = {}
    /\ nextUserId = 1
    /\ signups = NoSignups
    /\ transactions = <<>>
    /\ nextTransactionId = 1
    /\ clock = 0
    /\ deletes = NoDeletes
    /\ groups = <<>>
    /\ nextGroupId = 1
    /\ userGroups = <<>>
    /\ nextUserGroupId = 1
    /\ res = NoResponse

NextAuth ==
    \/ \E p \in 1..MaxInFlight, body \in SignupBodies : SignupLookup(p, body)
    \/ \E p \in 1..MaxInFlight : SignupCreate(p)
    \/ \E body \in SigninBodies : Signin(body)
    \/ \E caller \in Callers : GetAuthUser(caller)
    \/ \E userData \in UpsertRows : UpsertUser(userData)
    \/ Finish

SpecAuth == InitAuth /\ [][NextAuth]_vars

\* Bound: the number of expenses of the ledgers the aggregations are run on.
MaxRows == 4

\* The amount, in cents, and the category of an expense
ExpenseKinds == {10, 20} \X {"Food & Dining", "Shopping"}

\* The transactions table after user_1 has posted expenses of these kinds
LedgerOf(kinds) ==
    [i \in 1..Len(kinds) |->
        [id |-> i, userId |-> "user_1", groupId |-> NullId, type |-> "expense",
         amount |-> kinds[i][1], category |-> kinds[i][2], description |-> "d",
         date |-> 0]]

\* The aggregations on ledgers of up to MaxRows expenses
InitLedgers ==
    /\ users = RegisteredUsers
    /\ nextUserId = 3
    /\ signups = NoSignups
    /\ \E n \in 0..MaxRows : \E kinds \in [1..n -> ExpenseKinds] :
          /\ transactions = LedgerOf(kinds)
          /\ nextTransactionId = n + 1
    /\ clock = 0
    /\ deletes = NoDeletes
    /\ groups = <<>>
    /\ nextGroupId = 1
    /\ userGroups = <<>>
    /\ nextUserGroupId = 1
    /\ res = NoResponse

NextLedgers ==
    \/ \E caller \in Callers : GetBalance(caller)
    \/ \E caller \in Callers : GetCategorySpending(caller)
    \/ Finish

SpecLedgers == InitLedgers /\ [][NextLedgers]_vars

\* The in-memory store after its constructor
InitMem ==
    /\ users = {}
    /\ nextUserId = 1
    /\ signups = NoSignups
    /\ transactions = seedData
    /\ nextTransactionId = Len(seedData) + 1
    /\ clock = 0
    /\ deletes = NoDeletes
    /\ groups = <<>>
    /\ nextGroupId = 1
    /\ userGroups = <<>>
    /\ nextUserGroupId = 1
    /\ res = NoResponse

NextMem ==
    \/ \E body \in MemBodies : MemPostTransaction(body)
    \/ \E id \in MemIdParams : MemDeleteRoute(id)
    \/ Finish

SpecMem == InitMem /\ [][NextMem]_vars

\* The ledger under delete requests that overlap
NextDeletes ==
    \/ \E caller \in Callers, body \in DeletedBodies : PostTransaction(caller, body)
    \/ \E p \in 1..MaxInFlight, caller \in Callers, id \in IdParams :
          DeleteReceive(p, caller, id)
    \/ \E p \in 1..MaxInFlight : DeleteComplete(p)
    \/ Finish

SpecDeletes == Init /\ [][NextDeletes]_vars

\* The ledger with its dates, and the queries on it
NextQueries ==
    \/ Tick
    \/ \E caller \in Requesters, body \in QueryBodies : PostTransaction(caller, body)
    \/ \E caller \in Requesters, id \in IdParams : DeleteTransaction(caller, id)
    \/ \E caller \in Requesters : GetTransactions(caller)
    \/ \E caller \in Requesters, range \in RangeParams :
          GetTransactionsRange(caller, range[1], range[2])
    \/ \E category \in Categories, userId \in UserIds \cup {NoAccount} :
          GetTransactionsByCategory(category, userId)
    \/ \E id \in 1..MaxTransactionId : GetTransactionById(id)
    \/ \E groupId \in 1..MaxGroupId : GetGroupBalance(groupId)
    \/ \E caller \in Requesters : GetBalance(caller)
    \/ \E caller \in Requesters : GetCategorySpending(caller)
    \/ \E caller \in Requesters : GetAdminGroups(caller)
    \/ Finish

SpecQueries == Init /\ [][NextQueries]_vars

\* The groups of an administrator and a user
InitGroups ==
    /\ users = GroupUsers
    /\ nextUserId = 3
    /\ signups = NoSignups
    /\ transactions = <<>>
    /\ nextTransactionId = 1
    /\ clock = 0
    /\ deletes = NoDeletes
    /\ groups = <<>>
    /\ nextGroupId = 1
    /\ userGroups = <<>>
    /\ nextUserGroupId = 1
    /\ res = NoResponse

NextGroups ==
    \/ \E caller \in Requesters, body \in GroupBodies : PostAdminGroup(caller, body)
    \/ \E caller \in Requesters : GetAdminGroups(caller)
    \/ \E caller \in Requesters, groupId \in GroupIdParams : GetGroupMembers(caller, groupId)
    \/ \E caller \in Requesters, groupId \in GroupIdParams, body \in MemberBodies :
          PostGroupMember(caller, groupId, body)
    \/ \E caller \in Requesters, groupId \in GroupIdParams, userId \in UserIds :
          DeleteGroupMember(caller, groupId, userId)
    \/ \E caller \in Requesters, body \in GroupTransactionBodies : PostTransaction(caller, body)
    \/ Finish

SpecGroups == InitGroups /\ [][NextGroups]_vars

\* The groups of two administrators
InitAdmins ==
    /\ users = AdminUsers
    /\ nextUserId = 3
    /\ signups = NoSignups
    /\ transactions = <<>>
    /\ nextTransactionId = 1
    /\ clock = 0
    /\ deletes = NoDeletes
    /\ groups = <<>>
    /\ nextGroupId = 1
    /\ userGroups = <<>>
    /\ nextUserGroupId = 1
    /\ res = NoResponse

SpecAdmins == InitAdmins /\ [][NextGroups]_vars

(***************************************************************************)
(* Exact decimal arithmetic, the reference the claims are stated against.  *)
(***************************************************************************)
\* The number a decimal-safe result of c cents serialises to
Dec(c) == FDiv(FromInt(c), FromInt(100))

\* Every number of cents a balance of the ledger can come to
ExactCents == -(40 * MaxTransactionId)..(40 * MaxTransactionId)

DecTable == [c \in ExactCents |-> Dec(c)]

TwoDecimal(x) == \E c \in ExactCents : DecTable[c] = x

CentsValue(x) == CHOOSE c \in ExactCents : DecTable[c] = x

RECURSIVE SumCents(_)
SumCents(rows) == IF rows = <<>> THEN 0 ELSE Head(rows).amount + SumCents(Tail(rows))

Own(userId) == SelectSeq(transactions, LAMBDA t : t.userId = userId)

OwnOfType(userId, type) == SelectSeq(Own(userId), LAMBDA t : t.type = type)

OwnExpensesIn(userId, category) ==
    SelectSeq(OwnOfType(userId, "expense"), LAMBDA t : t.category = category)

\* |x - y| < 2^-20
Near(x, y) ==
    LET d == FSub(x, y) IN d # FNaN /\ (FIsZero(d) \/ d.e + 53 <= -20)

RECURSIVE SumPercentages(_)
SumPercentages(entries) ==
    IF entries = <<>> THEN FZero
    ELSE FAdd(Head(entries).percentage, SumPercentages(Tail(entries)))

BalanceSent == res.op = "GET /api/balance" /\ res.status = 200

CategorySpendingSent == res.op = "GET /api/category-spending" /\ res.status = 200

(***************************************************************************)
(* Claims.                                                                 *)
(***************************************************************************)
\* C1: the balance record holds two-decimal currency values, and its balance
\* is income - expenses in exact decimal arithmetic: no rounding drift from
\* summing amounts (0.10 and 0.20 come to exactly 0.30).
C1_BalanceIsExactDecimal ==
    BalanceSent =>
        /\ TwoDecimal(res.body.income)
        /\ TwoDecimal(res.body.expenses)
        /\ res.body.balance =
              Dec(CentsValue(res.body.income) - CentsValue(res.body.expenses))

\* C2: getBalance(userId) returns as income the sum of the amounts of the
\* income transactions stored for userId, as expenses the sum of its expense
\* transactions; other users' transactions contribute nothing, and a user
\* without transactions gets balance = income = expenses = 0.
C2_BalanceSumsOwnTransactions ==
    BalanceSent =>
        /\ res.body.income = Dec(SumCents(OwnOfType(res.caller, "income")))
        /\ res.body.expenses = Dec(SumCents(OwnOfType(res.caller, "expense")))
        /\ Own(res.caller) = <<>> =>
              /\ res.body.balance = FZero
              /\ res.body.income = FZero
              /\ res.body.expenses = FZero

\* C3: when the user has expense transactions, every entry of the category
\* spending has percentage = 100 * categoryAmount / totalExpenses, and the
\* percentages sum to 100, within rounding tolerance.
C3_PercentagesSumTo100 ==
    (CategorySpendingSent /\ OwnOfType(res.caller, "expense") # <<>>) =>
        LET total == SumCents(OwnOfType(res.caller, "expense"))
        IN  /\ \A i \in 1..Len(res.body) :
                  total # 0 =>
                      Near(res.body[i].percentage,
                           FDiv(FromInt(100 * SumCents(OwnExpensesIn(res.caller,
                                                         res.body[i].category))),
                                FromInt(total)))
            /\ Near(SumPercentages(res.body), FromInt(100))

\* C4: the category spending list is in non-increasing order of amount: each
\* entry's amount is at least the amount of the entry after it.
C4_SortedByAmountDescending ==
    CategorySpendingSent =>
        \A i \in 1..(Len(res.body) - 1) : FLeq(res.body[i + 1].amount, res.body[i].amount)

\* C4 witness: two categories of different amounts, the smaller one met first
C4_Witness ==
    /\ CategorySpendingSent
    /\ Len(res.body) = 2
    /\ res.body[1].amount # res.body[2].amount
    /\ OwnOfType(res.caller, "expense")[1].category = res.body[2].category

\* C5: for a user without expense transactions (no transactions, or income
\* only) the category spending request succeeds, nothing is divided by zero
\* and every percentage returned is 0.
C5_NoExpensesNoPercentages ==
    (res.op = "GET /api/category-spending" /\ isAuthenticated(res.caller)
        /\ OwnOfType(res.caller, "expense") = <<>>) =>
        /\ res.status = 200
        /\ \A i \in 1..Len(res.body) : res.body[i].percentage = FZero

\* C5 witness: category spending sent to a user who has income only
C5_Witness ==
    /\ CategorySpendingSent
    /\ OwnOfType(res.caller, "expense") = <<>>
    /\ OwnOfType(res.caller, "income") # <<>>

\* C6: a delete request removes the row of that id if there is one and
\* reports success exactly then; for an id never created or already deleted
\* it answers 404 (not an error) and leaves the table unchanged.
C6_DeleteReportsRemoval ==
    [][(Idle /\ res'.op = "DELETE /api/transactions/:id"
            /\ isAuthenticated(res'.caller) /\ ~IsNaN(res'.req)) =>
          LET id      == parseInt(res'.req)
              present == \E i \in 1..Len(transactions) : transactions[i].id = id
          IN  /\ res'.status = IF present THEN 200 ELSE 404
              /\ transactions' = SelectSeq(transactions, LAMBDA t : t.id # id)
              /\ ~present => transactions' = transactions
              /\ \A i \in 1..Len(transactions') : transactions'[i].id # id]_vars

\* C6 witness: the second delete of an id that had been created is answered 404
C6_Witness ==
    /\ res.op = "DELETE /api/transactions/:id"
    /\ res.status = 404
    /\ parseInt(res.req) < nextTransactionId

\* C7: a create request whose amount is "0" or negative is rejected with 400
\* and stores nothing, so every stored amount is above 0.
C7_NonPositiveAmountRejected ==
    /\ (res.op = "POST /api/transactions" /\ isAuthenticated(res.caller)
           /\ res.req.amount \in {"0", "-0.10"}) => res.status = 400
    /\ \A i \in 1..Len(transactions) : transactions[i].amount > 0

\* C8: a signin naming a registered identifier with a wrong password and a
\* signin naming an unregistered identifier fail alike: every well-formed
\* signin that fails is answered 401 with the one credential-error message.
C8_SigninFailuresIdentical ==
    (res.op = "POST /api/auth/signin" /\ ValidSignin(res.req) /\ res.status # 200) =>
        /\ res.status = 401
        /\ res.body = [message |-> "Invalid credentials"]

\* C9: a signup whose email or phone is already registered is rejected with
\* 409 and creates no second user, however the requests interleave: no two
\* users share an email or a phone, and a well-formed signup that creates
\* nothing is answered 409.
C9_DuplicateSignupConflict ==
    /\ \A u \in users, v \in users :
          u # v => /\ u.email = Null \/ u.email # v.email
                   /\ u.phone = Null \/ u.phone # v.phone
    /\ (res.op = "POST /api/auth/signup" /\ ValidSignup(res.req) /\ res.status # 201)
          => res.status = 409

\* The user objects a response carries
UsersSent ==
    IF res.op \in {"POST /api/auth/signup", "POST /api/auth/signin"}
          /\ res.status \in {200, 201}
    THEN {res.body.user}
    ELSE IF res.op = "GET /api/auth/user" /\ res.status = 200 THEN res.body
    ELSE {}

\* C10: no response carries a user's password field: the user object of a
\* signup, of a signin and of GET /api/auth/user has none.
C10_NoPasswordInResponse ==
    \A user \in UsersSent : "password" \notin DOMAIN user

(***************************************************************************)
(* Authorization, queries and memberships.                                 *)
(***************************************************************************)
AdminOps ==
    {"POST /api/admin/groups", "GET /api/admin/groups",
     "GET /api/admin/groups/:groupId/members", "POST /api/admin/groups/:groupId/members",
     "DELETE /api/admin/groups/:groupId/members/:userId"}

\* C11: a group-admin request (create group, list groups, add, remove or list
\* members) of an authenticated user whose role is not admin is answered 403
\* and leaves the groups and the memberships as they were.
C11_NonAdminForbidden ==
    [][(Idle /\ res'.op \in AdminOps /\ isAuthenticated(res'.caller)
            /\ ~IsAdmin(res'.caller)) =>
          (res'.status = 403 /\ groups' = groups /\ userGroups' = userGroups)]_vars

AggregationMethods ==
    {"getTransactions", "getBalance", "getCategorySpending", "getTransactionsByDateRange",
     "createTransaction", "deleteTransaction"}

\* The request answered last came without a session, or from someone who is
\* not an administrator to an admin route
FailsAuthorization ==
    /\ res.op # "none"
    /\ \/ res.caller = NoSession
       \/ res.op \in AdminOps /\ ~IsAdmin(res.caller)

CanAddExpense(userId, groupId) ==
    \E i \in 1..Len(userGroups) :
        /\ userGroups[i].userId = userId
        /\ userGroups[i].groupId = groupId
        /\ userGroups[i].canAddExpense = "true"

\* C13: a user without a membership of group g with canAddExpense = true
\* cannot create a transaction for g: the request is answered 403 (and a
\* request answered 403 has stored nothing).
C13_GroupExpenseNeedsPermission ==
    (res.op = "POST /api/transactions" /\ isAuthenticated(res.caller)
        /\ "groupId" \in DOMAIN res.req
        /\ ~CanAddExpense(res.caller, res.req.groupId)) => res.status = 403

RowsOf(rows) == {rows[i] : i \in 1..Len(rows)}

\* C14: the date range request returns exactly the caller's transactions
\* whose date t has start <= t <= end: none outside, all inside.
C14_DateRangeFilters ==
    (res.op = "GET /api/transactions/range" /\ res.status = 200) =>
        LET start == CHOOSE day \in 0..MaxClock : IsoDate(day) = res.req[1]
            end   == CHOOSE day \in 0..MaxClock : IsoDate(day) = res.req[2]
        IN  RowsOf(res.body) =
                {t \in RowsOf(Own(res.caller)) : start <= t.date /\ t.date <= end}

\* C15: getTransactionsByCategory(category, userId) returns exactly the
\* user's transactions whose category equals the given one.
C15_CategoryFilters ==
    res.op = "getTransactionsByCategory" =>
        RowsOf(res.body) = {t \in RowsOf(Own(res.caller)) : t.category = res.req}

C17_OneMembershipPerPair ==
    \A i \in 1..Len(userGroups), j \in 1..Len(userGroups) :
        (userGroups[i].userId = userGroups[j].userId
            /\ userGroups[i].groupId = userGroups[j].groupId) => i = j

ReadOps ==
    {"GET /api/balance", "GET /api/category-spending", "GET /api/transactions",
     "GET /api/transactions/range", "getTransactionsByCategory", "getTransactionById",
     "getGroupBalance"}

\* C18: a step of an aggregation or a query leaves the users, the groups, the
\* memberships and the transactions as they were.
C18_QueriesArePure ==
    [][(Idle /\ res'.op \in ReadOps) =>
          /\ users' = users
          /\ groups' = groups
          /\ userGroups' = userGroups
          /\ transactions' = transactions]_vars

\* C18 witness: getTransactionById has returned a stored row
C18_Witness ==
    /\ res.op = "getTransactionById"
    /\ res.body # {}
    /\ res.body \subseteq RowsOf(transactions)

\* C19: an aggregation or a query for a user or a group that has no record
\* signals not-found (404), it returns no empty or all-zero result.
C19_UnknownScopeNotFound ==
    /\ (res.op \in ReadOps \ {"getTransactionById", "getGroupBalance"}
           /\ isAuthenticated(res.caller) /\ res.caller \notin UserIds) => res.status = 404
    /\ (res.op = "getGroupBalance"
           /\ \A i \in 1..Len(groups) : groups[i].id # res.req) => res.status = 404

UnparsedDate(text) == text = "" \/ \A day \in 0..MaxClock : IsoDate(day) # text

\* C20: a date range request whose startDate or endDate is missing or is no
\* date is answered 400 before getTransactionsByDateRange is called, and
\* carries no transactions.
C20_BadDatesRejected ==
    (res.op = "GET /api/transactions/range" /\ isAuthenticated(res.caller)
        /\ (UnparsedDate(res.req[1]) \/ UnparsedDate(res.req[2]))) =>
        /\ res.status = 400
        /\ res.calls = <<>>
        /\ res.body \in {[message |-> "Start date and end date are required"],
                         [message |-> "Invalid date format"]}

\* C20 witness: a range request with an unparsable date by a user who has
\* transactions
C20_Witness ==
    /\ res.op = "GET /api/transactions/range"
    /\ res.req[2] = "abc"
    /\ res.status = 400
    /\ Own(res.caller) # <<>>

\* C21: every stored transaction has one owner, who is a user; a created
\* transaction is owned by the caller of the request and carries the server's
\* id, date and group, whatever userId, id, date or groupId the body holds;
\* and no step changes the owner of a stored transaction.
C21_OwnerIsCaller ==
    /\ [](\A t \in RowsOf(transactions) : t.userId \in UserIds)
    /\ [][/\ (Idle /\ res'.op = "POST /api/transactions" /\ res'.status = 201) =>
                /\ transactions' = Append(transactions, res'.body)
                /\ res'.body.userId = res'.caller
                /\ res'.body.id = nextTransactionId
                /\ res'.body.date = clock
                /\ res'.body.groupId = NullId
          /\ \A t \in RowsOf(transactions), u \in RowsOf(transactions') :
                u.id = t.id => u.userId = t.userId]_vars

\* C21 witness: a transaction was created from a body that names another
\* user, an id, a date and a group
C21_Witness ==
    /\ res.op = "POST /api/transactions"
    /\ res.status = 201
    /\ "userId" \in DOMAIN res.req
    /\ res.req.userId # res.caller
    /\ res.req.id # res.body.id
    /\ res.req.date # res.body.date

\* C24: a create request with an empty category, an empty description or a
\* type that is neither income nor expense is answered 400, and nothing is
\* stored: no stored transaction has an empty category or description or
\* another type.
C24_EmptyFieldsRejected ==
    /\ (res.op = "POST /api/transactions" /\ isAuthenticated(res.caller)
           /\ (res.req.category = "" \/ res.req.description = ""
                  \/ res.req.type \notin {"income", "expense"})) => res.status = 400
    /\ \A t \in RowsOf(transactions) :
          t.category # "" /\ t.description # "" /\ t.type \in {"income", "expense"}

\* The place of the first expense of the category among the user's expenses
FirstSeen(userId, category) ==
    LET expenses == OwnOfType(userId, "expense")
    IN  CHOOSE i \in 1..Len(expenses) :
            /\ expenses[i].category = category
            /\ \A j \in 1..(i - 1) : expenses[j].category # category

C23_OneEntryPerCategory ==
    CategorySpendingSent =>
        LET expenses == OwnOfType(res.caller, "expense")
        IN  /\ {res.body[i].category : i \in 1..Len(res.body)} =
                  {expenses[i].category : i \in 1..Len(expenses)}
            /\ \A i \in 1..Len(res.body), j \in 1..Len(res.body) :
                  res.body[i].category = res.body[j].category => i = j
            /\ \A i \in 1..Len(res.body) :
                  res.body[i].amount =
                      Dec(SumCents(OwnExpensesIn(res.caller, res.body[i].category)))

MemberAdded ==
    res.op = "POST /api/admin/groups/:groupId/members" /\ res.status = 200

\* C25: a membership row has canAddExpense = true only when the request that
\* added it carried canAddExpense: true, the boolean; a request without
\* canAddExpense or with false gives a row with canAddExpense = false.
C25_PermissionOnlyWhenGranted ==
    MemberAdded =>
        /\ res.body.canAddExpense = "true" => res.req[2].canAddExpense = "true"
        /\ res.req[2].canAddExpense \in {"false", "undefined"} =>
              res.body.canAddExpense = "false"

MemberOps ==
    {"GET /api/admin/groups/:groupId/members", "POST /api/admin/groups/:groupId/members",
     "DELETE /api/admin/groups/:groupId/members/:userId"}

MembersOf(rows, groupId) == SelectSeq(rows, LAMBDA m : m.groupId = groupId)

\* C27: a member request of an administrator changes no membership row of a
\* group whose adminId is another administrator, and lists no members of it.
C27_OnlyOwnGroups ==
    [][(Idle /\ res'.op \in MemberOps /\ IsAdmin(res'.caller)) =>
          \A i \in 1..Len(groups) :
              groups[i].adminId # res'.caller =>
                  /\ MembersOf(userGroups', groups[i].id) = MembersOf(userGroups, groups[i].id)
                  /\ ~(/\ res'.op = "GET /api/admin/groups/:groupId/members"
                       /\ res'.req = ToString(groups[i].id)
                       /\ res'.status = 200)]_vars

\* C26: a delete request of user v removes no transaction of another user u:
\* the transactions u owns, and with them getBalance(u), are as before.
C26_DeleteOnlyOwn ==
    [][(Idle /\ res'.op = "DELETE /api/transactions/:id" /\ isAuthenticated(res'.caller)) =>
          \A u \in UserIds \ {res'.caller} :
              /\ Own(u)' = Own(u)
              /\ getBalance(u)' = getBalance(u)]_vars

\* The requests for id that have been answered, and those answered 200
Answered(id) == {p \in DOMAIN deletes : deletes[p].id = id /\ deletes[p].status # 0}

Succeeded(id) == {p \in Answered(id) : deletes[p].status = 200}

\* C28: of delete requests for one transaction id that overlap in any way,
\* at most one reports success and the others report 404; once every request
\* that came while the transaction was stored is answered, exactly one has
\* reported success; and the transaction is then gone.
C28_OneDeleteSucceeds ==
    \A id \in IdParams :
        LET came == {p \in DOMAIN deletes : deletes[p].id = id /\ deletes[p].existed}
        IN  /\ \A p \in Answered(id) : deletes[p].status \in {200, 404}
            /\ Cardinality(Succeeded(id)) <= 1
            /\ (came # {} /\ came \subseteq Answered(id)) =>
                  Cardinality(Succeeded(id)) = 1
            /\ Succeeded(id) # {} => getTransactionById(parseInt(id)) = {}

\* C28 witness: two requests for the same stored transaction were both in
\* flight and are answered, one with 200 and one with 404
C28_Witness ==
    \E p \in DOMAIN deletes, q \in DOMAIN deletes :
        /\ p # q
        /\ deletes[p].id = deletes[q].id
        /\ deletes[p].existed /\ deletes[q].existed
        /\ deletes[p].status = 200
        /\ deletes[q].status = 404

\* C29: in the in-memory store the stored transactions have pairwise
\* distinct ids, each less than the id counter; the counter never decreases;
\* and an id that appears in the store is at least the counter before the
\* step, so it is the id of no transaction stored or deleted before.
C29_MemIdsNeverReused ==
    /\ [](/\ \A i \in 1..Len(transactions), j \in 1..Len(transactions) :
                transactions[i].id = transactions[j].id => i = j
          /\ \A t \in RowsOf(transactions) : t.id < nextTransactionId)
    /\ [][/\ nextTransactionId' >= nextTransactionId
          /\ \A u \in RowsOf(transactions') :
                (\A t \in RowsOf(transactions) : t.id # u.id) =>
                    u.id >= nextTransactionId]_vars

\* C29 witness: a sample record and the first created transaction have been
\* deleted, and a transaction created after that is stored
C29_Witness ==
    /\ \E i \in 1..Len(seedData) : \A t \in RowsOf(transactions) : t.id # i
    /\ \A t \in RowsOf(transactions) : t.id # Len(seedData) + 1
    /\ \E t \in RowsOf(transactions) : t.id > Len(seedData) + 1

\* The amounts of the entries added up as numbers, in the order of the list
RECURSIVE SumEntryAmounts(_, _)
SumEntryAmounts(entries, sum) ==
    IF entries = <<>> THEN sum
    ELSE SumEntryAmounts(Tail(entries), FAdd(sum, Head(entries).amount))

\* C30: the amounts of the entries of getCategorySpending(userId) add up to
\* the expenses of getBalance(userId) on the same stored transactions.
C30_SpendingSumsToExpenses ==
    CategorySpendingSent =>
        SumEntryAmounts(res.body, FZero) = getBalance(res.caller).expenses

====
